---------------------------- MODULE Spec2Model ----------------------------
(***************************************************************************)
(* EasyDear.hpp: the owned string candidate list (class Combo) and the     *)
(* fuzzy filter/rank engine (class FuzzyCombo) with the text-entry buffer  *)
(* it reads its query from (class InputText).                              *)
(*                                                                         *)
(* Strings are sequences of bytes (ASCII codes), 1-based here, 0-based in  *)
(* the source.  A char buffer is the sequence of its bytes, its            *)
(* terminating NUL included.                                               *)
(***************************************************************************)
EXTENDS Integers, Sequences, FiniteSets, TLC

VARIABLES
    alive,            \* the object has been constructed and not yet destroyed
    m_filtered_combo, \* the Combo: [m_current_item, m_items], m_items holds char* (addresses)
    heap,             \* free store: address -> [live, bytes]
    bad_release,      \* delete[] was applied to an address that is not a live buffer
    m_text,           \* InputText::m_text, the max_length + 1 bytes of the entry buffer
    m_items,          \* FuzzyCombo::m_items, the master candidate list
    input_text,       \* update(): the local input_text of the last cycle (after tolower)
    scores,           \* update(): the locals <<score, max_score>> of each loop iteration
    valids,           \* update(): the local valids of the last cycle
    last_call,        \* the operation that produced this state, with its arguments
    last_cycle        \* what the latest cycle read and produced (history)

vars == <<alive, m_filtered_combo, heap, bad_release, m_text, m_items,
          input_text, scores, valids, last_call, last_cycle>>

comboVars == <<m_filtered_combo, heap, bad_release>>
fuzzyVars == <<m_text, m_items, input_text, scores, valids, last_cycle>>

---------------------------------------------------------------------------
(* Bounds of the model *)

\* number of addresses the free store hands out: add_item is blocked when
\* every address holds a live buffer
MaxBuffers == 4

(* Program constants *)

\* FuzzyCombo() : m_input_text(name, 256)
m_max_length == 256
SCORE_EQUAL == 10
SCORE_NOT_SAME == -15

\* the range of int (32 bits)
IntMax == (2 ^ 30 - 1) + 2 ^ 30
IntMin == (0 - IntMax) - 1

\* '\0' and the null pointer
NUL == 0
nullptr == 0

Addr == 1 .. MaxBuffers

---------------------------------------------------------------------------
(* Strings *)

\* (a function with domain 1 .. n, concatenated with <<>> to have TLC store it
\* as a sequence)
Rep(c, n) == [i \in 1 .. n |-> c] \o <<>>

\* ::tolower in the "C" locale
tolower(c) == IF c \in 65 .. 90 THEN c + 32 ELSE c

\* std::transform(s.begin(), s.end(), s.begin(), ::tolower)
transform_tolower(s) == [i \in 1 .. Len(s) |-> tolower(s[i])] \o <<>>

\* the C string a char* points at: the bytes before the first NUL
c_str(buf) ==
    LET nuls == {i \in 1 .. Len(buf) : buf[i] = NUL}
    IN  IF nuls = {} THEN buf
        ELSE SubSeq(buf, 1, (CHOOSE i \in nuls : \A j \in nuls : i <= j) - 1)

Min(a, b) == IF a <= b THEN a ELSE b

---------------------------------------------------------------------------
(* Free store *)

NoBuffer == [live |-> FALSE, bytes |-> <<>>]

\* new char[n]: an address that holds no live buffer (addresses are opaque,
\* the least one stands for whichever the allocator returns).  When the
\* model's addresses are used up the result is no address: the operations
\* are blocked then, see Fits.
NoAddress == nullptr
new_char(h) ==
    LET free == {a \in Addr : ~h[a].live}
    IN  IF free = {} THEN NoAddress
        ELSE CHOOSE a \in free : \A b \in free : a <= b

---------------------------------------------------------------------------
(* class Combo.  w is [combo, heap, bad_release]. *)

World == [combo |-> m_filtered_combo, heap |-> heap, bad_release |-> bad_release]

\* delete[] item
delete_array(w, a) ==
    IF a \in Addr /\ w.heap[a].live
    THEN [w EXCEPT !.heap[a] = NoBuffer]
    ELSE [w EXCEPT !.bad_release = TRUE]

RECURSIVE delete_each(_, _, _)
delete_each(w, items, i) ==
    IF i > Len(items) THEN w
    ELSE delete_each(delete_array(w, items[i]), items, i + 1)

\* mutants of clear(): the vector is not emptied / the buffers are not released
clear_keeps_pointers(w) == delete_each(w, w.combo.m_items, 1)
clear_leaks(w) == [w EXCEPT !.combo.m_items = <<>>]

clear(w) ==
    LET released == delete_each(w, w.combo.m_items, 1)
    IN  [released EXCEPT !.combo.m_items = <<>>]

add_item(w, item) ==
    LET cstr == new_char(w.heap)
    IN  [w EXCEPT !.heap = [a \in Addr |->
                               IF a = cstr THEN [live |-> TRUE, bytes |-> item \o <<NUL>>]
                               ELSE w.heap[a]],
                  !.combo.m_items = Append(@, cstr)]

RECURSIVE add_each(_, _, _)
add_each(w, items, i) ==
    IF i > Len(items) THEN w
    ELSE add_each(add_item(w, items[i]), items, i + 1)

\* mutant of add_items(): m_current_item = 0 is left out
add_items_keeps_index(w, items) == add_each(clear(w), items, 1)

add_items(w, items) ==
    [add_each(clear(w), items, 1) EXCEPT !.combo.m_current_item = 0]

set_current_item_index(w, current_item) ==
    [w EXCEPT !.combo.m_current_item = current_item]

\* (unsigned int)m_current_item, i mod 2^32, as high * 2^31 + low
to_unsigned(i) ==
    IF i < 0 THEN [high |-> 1, low |-> IntMax + (i + 1)] ELSE [high |-> 0, low |-> i]

\* u >= n for an unsigned int u and a size n below 2^31
unsigned_ge(u, n) == u.high > 0 \/ u.low >= n

\* m_items[i] of a std::vector: reading outside [0, size) is out of bounds
OutOfBounds == 0 - 1
vector_at(v, i) == IF i + 1 \in DOMAIN v THEN v[i + 1] ELSE OutOfBounds

\* mutant of get_current_item(): the comparison is signed
get_current_item_signed(combo) ==
    IF combo.m_current_item >= Len(combo.m_items) THEN nullptr
    ELSE vector_at(combo.m_items, combo.m_current_item)

get_current_item(combo) ==
    IF unsigned_ge(to_unsigned(combo.m_current_item), Len(combo.m_items)) THEN nullptr
    ELSE vector_at(combo.m_items, combo.m_current_item)

\* every allocation of w found an address of the model
Fits(w) == \A i \in 1 .. Len(w.combo.m_items) : w.combo.m_items[i] \in Addr

\* the texts the combo shows: the C string behind each pointer of m_items
\* (a pointer to a released buffer shows nothing that is owned any more)
Dangling == <<-1>>
ItemTexts(w) ==
    [i \in 1 .. Len(w.combo.m_items) |->
        LET a == w.combo.m_items[i]
        IN  IF a \in Addr /\ w.heap[a].live THEN c_str(w.heap[a].bytes) ELSE Dangling]

---------------------------------------------------------------------------
(* class InputText.  The buffer is m_text[0 .. m_max_length]. *)

\* new char[max_length + 1] is not initialised: every byte holds whatever the
\* free store left there.  g is that content; set_value("") then ends the
\* text at offset 0.
GarbageBytes == {NUL, 97}

set_value(buf, value) ==
    LET max_copy == Min(Len(value), m_max_length)
    IN  [i \in 1 .. Len(buf) |->
            IF i <= max_copy THEN value[i]
            ELSE IF i = max_copy + 1 THEN NUL
            ELSE buf[i]] \o <<>>

\* ImGui::InputText(name, m_text, m_max_length) when the user edits the
\* field: the edited text (at most buf_size - 1 bytes) and its terminator are
\* written back, the bytes behind the terminator stay as they were
ImGui_InputText(buf, typed) ==
    [i \in 1 .. Len(buf) |->
        IF i <= Len(typed) THEN typed[i]
        ELSE IF i = Len(typed) + 1 THEN NUL
        ELSE buf[i]] \o <<>>

\* const char *get_ctext(): the typed text, as a C string
get_ctext(buf) == c_str(buf)

\* std::string(m_text, m_max_length): exactly m_max_length bytes
get_text(buf) == SubSeq(buf, 1, m_max_length)

---------------------------------------------------------------------------
(* class FuzzyCombo: the scoring of one candidate *)

\* std::find(item_str.begin(), item_str.end(), c): 0 stands for end()
find(item_str, c) ==
    IF \E j \in 1 .. Len(item_str) : item_str[j] = c
    THEN CHOOSE j \in 1 .. Len(item_str) :
             item_str[j] = c /\ \A k \in 1 .. j - 1 : item_str[k] # c
    ELSE 0

\* item_str.erase(it)
erase(item_str, it) ==
    SubSeq(item_str, 1, it - 1) \o SubSeq(item_str, it + 1, Len(item_str))

\* mutant of the iteration: the matched character is not erased
fuzzy_step_keeps_char(query, i, st) ==
    IF find(st.item_str, query[i]) # 0
    THEN [item_str |-> st.item_str, score |-> st.score + SCORE_EQUAL]
    ELSE [item_str |-> st.item_str, score |-> st.score + SCORE_NOT_SAME]
\* one iteration of "for (size_t i = 0; i < input_text.size(); i++)":
\* st is [item_str, score] before it, the result is [item_str, score] after it
fuzzy_step(query, i, st) ==
    LET it == find(st.item_str, query[i])
    IN  IF it # 0
        THEN [item_str |-> erase(st.item_str, it), score |-> st.score + SCORE_EQUAL]
        ELSE [item_str |-> st.item_str, score |-> st.score + SCORE_NOT_SAME]

\* e, evaluated after the state st of the loop (st.score = st.score is TRUE:
\* it fixes the order of evaluation only)
After(st, e) == IF st.score = st.score THEN e ELSE e

\* the iterations lo .. hi of the loop, in order (the range is halved only to
\* keep the evaluation shallow: the iterations run left to right)
RECURSIVE fuzzy_search(_, _, _, _)
fuzzy_search(query, lo, hi, st) ==
    IF lo > hi THEN st
    ELSE IF lo = hi THEN fuzzy_step(query, lo, st)
    ELSE LET mid == (lo + hi) \div 2
             left == fuzzy_search(query, lo, mid, st)
         IN  After(left, fuzzy_search(query, mid + 1, hi, left))

\* score and max_score of one candidate
score_item(query, item) ==
    [score     |-> fuzzy_search(query, 1, Len(query),
                       [item_str |-> transform_tolower(item), score |-> 0]).score,
     max_score |-> SCORE_EQUAL * Min(Len(query), Len(item))]

(* score_percent = score / max_score is a float.  score and max_score are     *)
(* integers of magnitude below 2^24, exact as floats, and max_score is at     *)
(* most SCORE_EQUAL * m_max_length, so two different quotients in (0.6, 1]    *)
(* differ by more than one unit in the last place and the correctly rounded   *)
(* division orders them as the fractions are ordered.  The float is kept as   *)
(* the pair [score, max_score]; max_score = 0 gives -inf, NaN or +inf.        *)
IsNaN(p) == p.max_score = 0 /\ p.score = 0
IsFinite(p) == p.max_score # 0

\* a < b on floats
float_less(a, b) ==
    /\ ~IsNaN(a)
    /\ ~IsNaN(b)
    /\ IF IsFinite(a) /\ IsFinite(b) THEN a.score * b.max_score < b.score * a.max_score
       ELSE IF IsFinite(a) THEN b.score > 0
       ELSE IF IsFinite(b) THEN a.score < 0
       ELSE a.score < 0 /\ b.score > 0

\* mutant of the threshold: score_percent >= 0.60f
at_or_above_threshold(p) ==
    IF IsFinite(p) THEN 5 * p.score >= 3 * p.max_score ELSE p.score > 0
\* score_percent > 0.60f
above_threshold(p) ==
    IF IsFinite(p) THEN 5 * p.score > 3 * p.max_score ELSE p.score > 0

\* mutant of the insertion: always push_back
insert_valid_at_end(v, item, score_percent) ==
    Append(v, [first |-> item, second |-> score_percent])
\* mutant of the insertion: before the first element that is not greater
insert_valid_before_ties(v, item, score_percent) ==
    LET lower == {k \in 1 .. Len(v) : ~float_less(score_percent, v[k].second)}
        it == IF lower = {} THEN Len(v) + 1
              ELSE CHOOSE k \in lower : \A j \in lower : k <= j
    IN  SubSeq(v, 1, it - 1) \o <<[first |-> item, second |-> score_percent]>>
            \o SubSeq(v, it, Len(v))
\* find_if(p.second < score_percent), then insert before it or push_back
insert_valid(v, item, score_percent) ==
    LET lower == {k \in 1 .. Len(v) : float_less(v[k].second, score_percent)}
        it == IF lower = {} THEN Len(v) + 1
              ELSE CHOOSE k \in lower : \A j \in lower : k <= j
    IN  SubSeq(v, 1, it - 1) \o <<[first |-> item, second |-> score_percent]>>
            \o SubSeq(v, it, Len(v))

\* valids after the first n iterations of "for (auto& item : m_items)",
\* sc[i] being the score and max_score of iteration i
RECURSIVE build_valids(_, _, _)
build_valids(items, sc, n) ==
    IF n = 0 THEN <<>>
    ELSE LET v == build_valids(items, sc, n - 1)
         IN  IF above_threshold(sc[n]) THEN insert_valid(v, items[n], sc[n]) ELSE v

ValidTexts(v) == [k \in 1 .. Len(v) |-> v[k].first]

---------------------------------------------------------------------------
(* class FuzzyCombo: one cycle *)

\* score and max_score of every candidate, in the order of m_items
score_all(query, items) ==
    [i \in 1 .. Len(items) |-> score_item(query, items[i])] \o <<>>

\* mutant of rebuild(): set_current_item_index(0) is left out
rebuild_keeps_index(w, query, sc, v) ==
    [world |-> add_each(clear(w), ValidTexts(v), 1),
     input_text |-> query, scores |-> sc, valids |-> v]

\* clear(), add_item() of every element of valids, set_current_item_index(0);
\* the result holds the combo and the locals of the cycle
rebuild(w, query, sc, v) ==
    [world |-> set_current_item_index(add_each(clear(w), ValidTexts(v), 1), 0),
     input_text |-> query, scores |-> sc, valids |-> v]

\* the loop over m_items, then the rebuild
rank(w, query, items, sc) == rebuild(w, query, sc, build_valids(items, sc, Len(items)))

\* update() from the read of the entry buffer to set_current_item_index(0)
score_and_rank(w, query, items) == rank(w, query, items, score_all(query, items))

evaluate(w, buf, items) == score_and_rank(w, transform_tolower(get_text(buf)), items)

\* ImGui::Combo(name, &m_current_item, m_items.data(), m_items.size()): a
\* pick of the entry at offset click is written to m_current_item
NoClick == 0 - 1
ImGui_Combo(w, click) ==
    IF click = NoClick THEN w ELSE [w EXCEPT !.combo.m_current_item = click]

---------------------------------------------------------------------------
(* Inputs *)

StrA == <<97>>
StrAb == <<65, 98>>
Apple == <<65, 112, 112, 108, 101>>
Banana == <<66, 97, 110, 97, 110, 97>>
Grape == <<71, 114, 97, 112, 101>>
Pineapple == <<80, 105, 110, 101, 97, 112, 112, 108, 101>>
QueryAp == <<97, 112>>
Fruits == <<Apple, Banana, Grape, Pineapple>>

\* the longest text the entry field takes (buf_size - 1 bytes), in capitals
TypedFull == Rep(65, m_max_length - 1)

\* candidates long enough to be scored against a query of m_max_length bytes
Long255 == Rep(97, m_max_length - 1)
LongMix == Rep(97, m_max_length - 26) \o Rep(98, 26)
LongMixB == Rep(98, 26) \o Rep(97, m_max_length - 26)
Long210 == Rep(97, m_max_length - 46)
LongList == <<Long210, Long255, StrA, LongMix, LongMixB>>

\* texts and lists handed to Combo::add_item and Combo::add_items
ComboTexts == {<<>>, StrAb}
ComboLists == {<<>>, <<StrA>>, <<StrAb, StrA>>, <<StrA, <<>>, StrAb>>}

\* arguments of set_current_item_index and of the constructors
IndexChoices == {IntMin, 0 - 1, 1, IntMax}
CtorIndexes == {0, 0 - 1}

\* lists handed to FuzzyCombo::set_items
MasterLists == {<<>>, Fruits, LongList}

\* the text of the entry field after ImGui::InputText (the text it had, when
\* the user does not edit it)
TypedTexts == {<<>>, QueryAp, TypedFull}

\* the entry of the drawn combo the user picks, if any
ClickChoices == {NoClick, 1}

\* candidates and queries for the scoring loop on its own
A7 == Rep(97, 7)
A7Cap == <<65>> \o Rep(97, 6)
A7x == Rep(97, 7) \o <<120>>
A7b == Rep(97, 7) \o <<98>>
A25 == Rep(97, 25)
TieList == <<A7x, A7, A7Cap, A7>>
FrontList == <<A7, A7x, A7, A7b>>
EdgeList == <<A25, <<>>, A7x, StrA, Apple>>

\* lists handed to FuzzyCombo::set_items
CandidateLists == {<<>>, Fruits, TieList, FrontList, EdgeList}

\* a query of n times 'a' and u times 'z'
NearMiss(n, u) == Rep(97, n) \o Rep(122, u)
QueryPaa == <<112, 65, 97>>
QueryB7 == <<98, 65>> \o Rep(97, 6)
Query7B == <<65>> \o Rep(97, 6) \o <<66>>
MaxMatched == 8
MaxUnmatched == 2

\* the strings the scoring loop is run on (before line 788 lower-cases them)
QueryTexts ==
    {NearMiss(n, u) : n \in 0 .. MaxMatched, u \in 0 .. MaxUnmatched}
        \cup {NearMiss(21, 4), NearMiss(22, 3)}
        \cup {QueryAp, StrAb, QueryPaa, QueryB7, Query7B}

---------------------------------------------------------------------------
(* Construction *)

NoCycle == [ran |-> FALSE, repeated |-> FALSE, m_text |-> <<>>, m_items |-> <<>>,
            texts |-> <<>>]

Call(op, arg) == [op |-> op, arg |-> arg]

Init ==
    \E current_item \in CtorIndexes, g \in GarbageBytes :
        /\ alive = TRUE
        /\ m_filtered_combo = [m_current_item |-> current_item, m_items |-> <<>>]
        /\ heap = [a \in Addr |-> NoBuffer]
        /\ bad_release = FALSE
        /\ m_text = set_value(Rep(g, m_max_length + 1), <<>>)
        /\ m_items = <<>>
        /\ input_text = <<>>
        /\ scores = <<>>
        /\ valids = <<>>
        /\ last_call = Call("construct", <<current_item>>)
        /\ last_cycle = NoCycle

SetWorld(w) ==
    /\ m_filtered_combo' = w.combo
    /\ heap' = w.heap
    /\ bad_release' = w.bad_release

---------------------------------------------------------------------------
(* Operations of the Combo *)

Clear ==
    /\ alive
    /\ SetWorld(clear(World))
    /\ last_call' = Call("clear", m_filtered_combo.m_items)
    /\ UNCHANGED <<alive, fuzzyVars>>

AddItem ==
    \E item \in ComboTexts :
        /\ alive
        /\ Fits(add_item(World, item))
        /\ SetWorld(add_item(World, item))
        /\ last_call' = Call("add_item", <<item>>)
        /\ UNCHANGED <<alive, fuzzyVars>>

AddItems ==
    \E items \in ComboLists :
        /\ alive
        /\ Fits(add_items(World, items))
        /\ SetWorld(add_items(World, items))
        /\ last_call' = Call("add_items", items)
        /\ UNCHANGED <<alive, fuzzyVars>>

SetCurrentItemIndex ==
    \E current_item \in IndexChoices :
        /\ alive
        /\ SetWorld(set_current_item_index(World, current_item))
        /\ last_call' = Call("set_current_item_index", <<current_item>>)
        /\ UNCHANGED <<alive, fuzzyVars>>

\* Combo::update(): the list is drawn, the user may pick one of its entries
ComboUpdate ==
    \E click \in ClickChoices :
        /\ alive
        /\ click = NoClick \/ click < Len(m_filtered_combo.m_items)
        /\ SetWorld(ImGui_Combo(World, click))
        /\ last_call' = Call("combo_update", <<click>>)
        /\ UNCHANGED <<alive, fuzzyVars>>

\* ~Combo()
Destroy ==
    /\ alive
    /\ alive' = FALSE
    /\ SetWorld(clear(World))
    /\ last_call' = Call("destroy", m_filtered_combo.m_items)
    /\ UNCHANGED fuzzyVars

---------------------------------------------------------------------------
(* Operations of the FuzzyCombo *)

SetItems ==
    \E items \in MasterLists :
        /\ alive
        /\ m_items' = items
        /\ last_call' = Call("set_items", items)
        /\ UNCHANGED <<alive, comboVars, m_text, input_text, scores, valids, last_cycle>>

\* FuzzyCombo::update(): the entry field is drawn (the user may edit it), the
\* candidates are scored and ranked, the filtered combo is rebuilt and drawn
\* (the user may pick one of its entries)
Update ==
    \E typed \in TypedTexts :
        \E buf \in {ImGui_InputText(m_text, typed)} :
        \E cycle \in {evaluate(World, buf, m_items)} :
            /\ alive
            /\ Fits(cycle.world)
            /\ m_text' = buf
            /\ input_text' = cycle.input_text
            /\ scores' = cycle.scores
            /\ valids' = cycle.valids
            /\ last_cycle' = [ran |-> TRUE,
                              repeated |-> /\ last_cycle.ran
                                           /\ last_cycle.m_text = buf
                                           /\ last_cycle.m_items = m_items,
                              m_text |-> buf, m_items |-> m_items,
                              texts |-> ItemTexts(cycle.world)]
            /\ \E click \in ClickChoices :
                   /\ click = NoClick \/ click < Len(cycle.world.combo.m_items)
                   /\ SetWorld(ImGui_Combo(cycle.world, click))
                   /\ last_call' = Call("update", <<click>>)
            /\ UNCHANGED <<alive, m_items>>

\* FuzzyCombo::set_items, on the candidate lists of the scoring loop
SetCandidates ==
    \E items \in CandidateLists :
        /\ alive
        /\ m_items' = items
        /\ last_call' = Call("set_items", items)
        /\ UNCHANGED <<alive, comboVars, m_text, input_text, scores, valids, last_cycle>>

\* FuzzyCombo::update() from line 788 to line 829, on a query string q in the
\* place of the string line 787 reads: q is lower-cased, the candidates are
\* scored and ranked, the filtered combo is rebuilt
Evaluate ==
    \E q \in QueryTexts :
        \E cycle \in {score_and_rank(World, transform_tolower(q), m_items)} :
            /\ alive
            /\ Fits(cycle.world)
            /\ input_text' = cycle.input_text
            /\ scores' = cycle.scores
            /\ valids' = cycle.valids
            /\ SetWorld(cycle.world)
            /\ last_call' = Call("evaluate", q)
            /\ UNCHANGED <<alive, m_text, m_items, last_cycle>>

---------------------------------------------------------------------------
(* Specifications *)

\* a Combo on its own
NextCombo == Clear \/ AddItem \/ AddItems \/ SetCurrentItemIndex \/ ComboUpdate \/ Destroy

SpecCombo == Init /\ [][NextCombo]_vars

\* a FuzzyCombo
Next == SetItems \/ Update

Spec == Init /\ [][Next]_vars

\* the scoring and ranking of FuzzyCombo::update as a function of the query
\* and of the master list
NextEvaluate == SetCandidates \/ Evaluate

SpecEvaluate == Init /\ [][NextEvaluate]_vars

---------------------------------------------------------------------------
(* Properties of the Combo (SpecCombo) *)

Stored == {m_filtered_combo.m_items[i] : i \in 1 .. Len(m_filtered_combo.m_items)}
Live == {a \in Addr : heap[a].live}

\* C1: every buffer add_item allocated is released exactly once: delete[] is
\* never applied to an address that holds no live buffer (no double release),
\* every pointer stored in m_items is a live buffer and is stored once, every
\* live buffer is stored in m_items (so that clear() releases it), and after
\* destruction no buffer is live.
C1_ReleasedExactlyOnce ==
    /\ ~bad_release
    /\ \A i \in 1 .. Len(m_filtered_combo.m_items) :
           /\ m_filtered_combo.m_items[i] \in Live
           /\ \A j \in 1 .. Len(m_filtered_combo.m_items) :
                  m_filtered_combo.m_items[i] = m_filtered_combo.m_items[j] => i = j
    /\ Live = Stored
    /\ ~alive => Live = {}

\* the destructor released two or more buffers
C1_Witness ==
    /\ ~alive
    /\ last_call.op = "destroy"
    /\ Len(last_call.arg) >= 2
    /\ Live = {}

\* C2: get_current_item() returns the pointer stored at the selection index
\* when 0 <= index < length and nullptr otherwise, for every int index; it
\* never reads m_items out of bounds.
C2_CurrentItemBoundsChecked ==
    LET index == m_filtered_combo.m_current_item
        length == Len(m_filtered_combo.m_items)
    IN  /\ get_current_item(m_filtered_combo) # OutOfBounds
        /\ get_current_item(m_filtered_combo) =
               IF 0 <= index /\ index < length
               THEN m_filtered_combo.m_items[index + 1]
               ELSE nullptr

\* a negative index on a list that holds items
C2_Witness ==
    /\ m_filtered_combo.m_current_item < 0
    /\ Len(m_filtered_combo.m_items) >= 2
    /\ get_current_item(m_filtered_combo) = nullptr

\* clear(), add_item(x) for each x of items in order, set_current_item_index(0)
ClearAddEachReset(w, items) == set_current_item_index(add_each(clear(w), items, 1), 0)

\* C3: add_items(list) leaves the combo as clear(), add_item(x) for each x of
\* list in order and set_current_item_index(0) leave it: the texts of the
\* items are the elements of list, in order, no buffer of the prior state is
\* kept, and the selection index is 0.
C3_AddItemsIsClearAddReset ==
    [][last_call'.op = "add_items" =>
          /\ World' = ClearAddEachReset(World, last_call'.arg)
          /\ ItemTexts(World') = last_call'.arg
          /\ Live' = Stored'
          /\ m_filtered_combo'.m_current_item = 0]_vars

\* add_items of a list of three texts, one of them empty
C3_Witness ==
    /\ last_call.op = "add_items"
    /\ last_call.arg = <<StrA, <<>>, StrAb>>
    /\ ItemTexts(World) = <<StrA, <<>>, StrAb>>

---------------------------------------------------------------------------
(* Properties of the FuzzyCombo (Spec) *)

\* the text the user has typed: the entry buffer read as a C string
TypedText == get_ctext(m_text)

\* the texts of the filtered combo
FilteredTexts == ItemTexts(World)

\* the positions of a text in a sequence
Positions(seq, text) == {k \in 1 .. Len(seq) : seq[k] = text}

\* C4: the query a cycle scores is the typed text (lower-cased, as it is
\* scored): the bytes of the entry buffer before its first terminator.
C4_QueryIsTypedText ==
    last_cycle.ran => input_text = transform_tolower(get_ctext(last_cycle.m_text))

\* C5: master list Apple, Banana, Grape, Pineapple and typed query "ap": the
\* cycle accepts Apple and Pineapple, Apple with score 20 of max_score 20, and
\* neither Grape nor Banana precedes either of them in the filtered list.
C5_ApScenario ==
    (last_call.op = "update" /\ m_items = Fruits /\ TypedText = QueryAp) =>
        /\ Positions(FilteredTexts, Apple) # {}
        /\ Positions(FilteredTexts, Pineapple) # {}
        /\ \E k \in 1 .. Len(valids) :
               /\ valids[k].first = Apple
               /\ valids[k].second = [score |-> 20, max_score |-> 20]
        /\ \A good \in Positions(FilteredTexts, Apple) \cup Positions(FilteredTexts, Pineapple),
              bad \in Positions(FilteredTexts, Grape) \cup Positions(FilteredTexts, Banana) :
               good < bad

\* C6: a non-empty master list and an empty query: the cycle accepts every
\* candidate and the filtered list is the master list, in its order.
C6_EmptyQueryAcceptsAll ==
    (last_call.op = "update" /\ m_items # <<>> /\ TypedText = <<>>) =>
        FilteredTexts = m_items

\* C7: when the typed query equals, ASCII case-insensitively, the full text of
\* a candidate c, c has score_percent 1.0, is accepted, and precedes every
\* other accepted candidate whose score_percent is equal to or lower than its own.
C7_ExactMatchFirst ==
    last_call.op = "update" =>
        \A i \in 1 .. Len(m_items) :
            transform_tolower(m_items[i]) = transform_tolower(TypedText) =>
                /\ scores[i].score = scores[i].max_score
                /\ scores[i].max_score # 0
                /\ \E k \in 1 .. Len(valids) :
                       /\ valids[k].first = m_items[i]
                       /\ \A j \in 1 .. Len(valids) :
                              (valids[j].first # m_items[i]
                                  /\ ~float_less(valids[k].second, valids[j].second))
                              => k < j

\* v is in non-increasing order of score_percent, each above 0.60
RankedAboveThreshold(v) ==
    /\ \A k \in 1 .. Len(v) - 1 : ~float_less(v[k].second, v[k + 1].second)
    /\ \A k \in 1 .. Len(v) :
           /\ v[k].second.max_score > 0
           /\ 5 * v[k].second.score > 3 * v[k].second.max_score

\* C8: after every iteration of the loop over the candidates, and at its end,
\* valids is in non-increasing order of score_percent and each of its
\* elements has score_percent > 0.60.
C8_RankedAboveThreshold ==
    /\ \A n \in 0 .. Len(scores) :
           RankedAboveThreshold(build_valids(last_cycle.m_items, scores, n))
    /\ valids = build_valids(last_cycle.m_items, scores, Len(scores))
    /\ RankedAboveThreshold(valids)

\* four candidates accepted with three different score_percent, the best one
\* second in the master list
C8_Witness ==
    /\ last_call.op = "update"
    /\ Len(valids) = 4
    /\ valids[1].first = Long255
    /\ float_less(valids[2].second, valids[1].second)
    /\ float_less(valids[4].second, valids[3].second)

\* C9: a cycle that reads the same entry buffer and the same master list as
\* the cycle before it leaves the same filtered list, whatever the filtered
\* combo held and whatever its selection index was.
C9_SameInputsSameResult ==
    [][(/\ last_call'.op = "update"
        /\ last_cycle.ran
        /\ m_text' = last_cycle.m_text
        /\ m_items = last_cycle.m_items)
       => FilteredTexts' = last_cycle.texts]_vars

\* a cycle repeated on the inputs of the cycle before it, with a filtered list
\* of several entries
C9_Witness ==
    /\ last_call.op = "update"
    /\ last_cycle.repeated
    /\ Len(FilteredTexts) >= 2

\* the texts of the accepted candidates of the last cycle, in master order
AcceptedInMasterOrder(items, sc) ==
    LET RECURSIVE Pick(_)
        Pick(n) == IF n = 0 THEN <<>>
                   ELSE IF sc[n].max_score > 0 /\ 5 * sc[n].score > 3 * sc[n].max_score
                        THEN Append(Pick(n - 1), items[n])
                        ELSE Pick(n - 1)
    IN  Pick(Len(items))

\* s and t hold the same elements, each as often
SameElements(s, t) ==
    /\ Len(s) = Len(t)
    /\ \A x \in {s[k] : k \in 1 .. Len(s)} \cup {t[k] : k \in 1 .. Len(t)} :
           Cardinality(Positions(s, x)) = Cardinality(Positions(t, x))

\* what a cycle leaves, the selection index aside
CycleResult ==
    /\ FilteredTexts' = ValidTexts(valids')
    /\ SameElements(FilteredTexts', AcceptedInMasterOrder(m_items, scores'))
    /\ RankedAboveThreshold(valids')
    /\ Live' = Stored'
    /\ Len(FilteredTexts') <= Len(m_items)
    /\ m_items' = m_items

\* C10 as stated: after every cycle the filtered list holds the texts accepted
\* in that cycle, in rank order, and nothing else; it is no longer than the
\* master list; the master list is unchanged; the selection index is 0.
C10_CycleResultIndexZero ==
    [][last_call'.op = "update" =>
          (CycleResult /\ m_filtered_combo'.m_current_item = 0)]_vars

\* C10, amended: as stated, but the selection index is 0 unless the user
\* picked an entry of the rebuilt list while update() drew it; then it is
\* the index of that entry, which is in the list.
C10_CycleResult ==
    [][last_call'.op = "update" =>
          /\ CycleResult
          /\ LET click == last_call'.arg[1]
                 index == m_filtered_combo'.m_current_item
             IN  IF click = NoClick THEN index = 0
                 ELSE index = click /\ 0 <= index /\ index < Len(FilteredTexts')]_vars

\* a cycle that accepted four of five candidates, the second entry picked
C10_Witness ==
    /\ last_call.op = "update"
    /\ Len(m_items) = 5
    /\ Len(FilteredTexts) = 4
    /\ m_filtered_combo.m_current_item = 1

---------------------------------------------------------------------------
(* Properties of the scoring loop (SpecEvaluate) *)

\* the query string the last evaluation was run on, as given
GivenQuery == last_call.arg

\* how often x occurs in s
Count(s, x) == Cardinality(Positions(s, x))

\* the size of the multiset intersection of the characters of q and c
RECURSIVE SumOfMin(_, _, _)
SumOfMin(chars, q, c) ==
    IF chars = {} THEN 0
    ELSE LET x == CHOOSE y \in chars : TRUE
         IN  Min(Count(q, x), Count(c, x)) + SumOfMin(chars \ {x}, q, c)

MultisetIntersection(q, c) == SumOfMin({q[j] : j \in 1 .. Len(q)}, q, c)

\* 10 * k - 15 * (len(q) - k), k taken on the lower-cased strings
ClosedFormScore(q, c) ==
    LET k == MultisetIntersection(transform_tolower(q), transform_tolower(c))
    IN  10 * k - 15 * (Len(q) - k)

\* the raw score lines 788 to 811 compute for the query string p and candidate c
LoopScore(p, c) == score_item(transform_tolower(p), c).score

\* rearrangements of q: every permutation of a short q, every exchange of two
\* characters of a longer one
MaxPermuted == 4
Rearranged(q) ==
    IF Len(q) <= MaxPermuted
    THEN {[j \in 1 .. Len(q) |-> q[f[j]]] : f \in Permutations(1 .. Len(q))}
    ELSE {[q EXCEPT ![i] = q[j], ![j] = q[i]] : i, j \in 1 .. Len(q)}

\* s with the case of ASCII letters changed: all of them, or one of them
OtherCase(c) == IF c \in 65 .. 90 THEN c + 32 ELSE IF c \in 97 .. 122 THEN c - 32 ELSE c
Recased(s) ==
    {[j \in 1 .. Len(s) |-> OtherCase(s[j])], transform_tolower(s)}
        \cup {[s EXCEPT ![j] = OtherCase(s[j])] : j \in 1 .. Len(s)}

\* C11: for a non-empty query q and every candidate c the raw score of the
\* loop is 10 * k - 15 * (len(q) - k), k the size of the multiset
\* intersection of the lower-cased characters of q and c; the score is the
\* same for every rearrangement of q and for every change of case of the
\* ASCII letters of q or c.
C11_ScoreIsClosedForm ==
    last_call.op = "evaluate" =>
        \A i \in 1 .. Len(m_items) :
            /\ Len(GivenQuery) > 0 =>
                   scores[i].score = ClosedFormScore(GivenQuery, m_items[i])
            /\ \A p \in Rearranged(GivenQuery) : LoopScore(p, m_items[i]) = scores[i].score
            /\ \A p \in Recased(GivenQuery), d \in Recased(m_items[i]) :
                   LoopScore(p, d) = scores[i].score

\* the query "pAa" scored against "Apple": 'p' and one 'a' are matched out of
\* order, the second 'a' finds no character left
C11_Witness ==
    /\ last_call.op = "evaluate"
    /\ GivenQuery = QueryPaa
    /\ \E i \in 1 .. Len(m_items) :
           /\ m_items[i] = Apple
           /\ scores[i].score = 5

\* the candidates of the master list with their score_percent, in its order
ScoredItems == [i \in 1 .. Len(m_items) |-> [first |-> m_items[i], second |-> scores[i]]]

\* a = b on floats that are numbers
float_equal(a, b) == ~float_less(a, b) /\ ~float_less(b, a) /\ ~IsNaN(a) /\ ~IsNaN(b)

\* the texts of the accepted elements of v whose score_percent equals s, in
\* the order of v
TiedTexts(v, s) ==
    ValidTexts(SelectSeq(v, LAMBDA e : above_threshold(e.second) /\ float_equal(e.second, s)))

\* iteration n of the loop over the candidates puts candidate n immediately
\* before the first element of valids with a strictly lower score_percent,
\* at the end if there is none, and does nothing if it is not accepted
InsertedBeforeFirstLower(n) ==
    LET before == build_valids(m_items, scores, n - 1)
        after == build_valids(m_items, scores, n)
    IN  IF above_threshold(scores[n])
        THEN \E p \in 1 .. Len(before) + 1 :
                 /\ after = SubSeq(before, 1, p - 1) \o <<ScoredItems[n]>>
                                \o SubSeq(before, p, Len(before))
                 /\ \A k \in 1 .. p - 1 : ~float_less(before[k].second, scores[n])
                 /\ p <= Len(before) => float_less(before[p].second, scores[n])
        ELSE after = before

\* C12: each accepted candidate is inserted immediately before the first
\* already accepted element with a strictly lower score_percent, at the end if
\* there is none; accepted candidates of equal score_percent are in the
\* filtered list in their master order; a text that is accepted and occurs n
\* times in the master list occurs n times in the filtered list.
C12_StableInsertionNoDedup ==
    last_call.op = "evaluate" =>
        /\ \A n \in 1 .. Len(m_items) : InsertedBeforeFirstLower(n)
        /\ valids = build_valids(m_items, scores, Len(m_items))
        /\ FilteredTexts = ValidTexts(valids)
        /\ \A i \in 1 .. Len(m_items) :
               above_threshold(scores[i]) =>
                   /\ TiedTexts(valids, scores[i]) = TiedTexts(ScoredItems, scores[i])
                   /\ Count(FilteredTexts, m_items[i])
                          = Cardinality({j \in 1 .. Len(m_items) : m_items[j] = m_items[i]})

\* four candidates accepted: the first has the lowest score_percent, the
\* other three are tied, two of them the same text with another between them
C12_Witness ==
    /\ last_call.op = "evaluate"
    /\ m_items = TieList
    /\ FilteredTexts = <<A7, A7Cap, A7, A7x>>
    /\ float_equal(valids[1].second, valids[3].second)
    /\ float_less(valids[4].second, valids[3].second)

\* the number of characters of the query string p the loop matches in c:
\* the characters it has erased from the working copy
Matched(p, c) ==
    Len(c) - Len(fuzzy_search(transform_tolower(p), 1, Len(p),
                     [item_str |-> transform_tolower(c), score |-> 0]).item_str)

\* candidate i passed the test of line 813 and is in the filtered list
Accepted(i) ==
    /\ above_threshold(scores[i])
    /\ Positions(FilteredTexts, m_items[i]) # {}

\* candidate i failed the test of line 813 and is not in the filtered list
Rejected(i) ==
    /\ ~above_threshold(scores[i])
    /\ Positions(FilteredTexts, m_items[i]) = {}

\* C13: for a non-empty query q no longer than the candidate c, c is accepted
\* exactly when the number m of matched query characters has
\* 25 * m > 21 * len(q); with exactly one unmatched query character c is
\* accepted when len(q) >= 7 and rejected when len(q) is 1 to 6, where only
\* a candidate matching every query character (score_percent 1.0) is accepted.
C13_NearMissAcceptance ==
    last_call.op = "evaluate" =>
        \A i \in 1 .. Len(m_items) :
            LET len == Len(GivenQuery)
                m == Matched(GivenQuery, m_items[i])
            IN  (len > 0 /\ len <= Len(m_items[i])) =>
                    /\ IF 25 * m > 21 * len THEN Accepted(i) ELSE Rejected(i)
                    /\ (m = len - 1 /\ len >= 7) => Accepted(i)
                    /\ (m = len - 1 /\ len <= 6) => Rejected(i)
                    /\ (len <= 6 /\ Accepted(i)) =>
                           /\ m = len
                           /\ scores[i].score = scores[i].max_score

\* a query of seven characters, six of them matched in a candidate of eight,
\* which is accepted below score_percent 1.0
C13_Witness ==
    /\ last_call.op = "evaluate"
    /\ GivenQuery = NearMiss(6, 1)
    /\ \E i \in 1 .. Len(m_items) :
           /\ m_items[i] = A7x
           /\ Matched(GivenQuery, m_items[i]) = 6
           /\ Accepted(i)
           /\ scores[i].score < scores[i].max_score

=============================================================================
